---- MODULE Spec2Model ----
(***************************************************************************)
(* Model of the onlyoffice-convert-lambda request handler                  *)
(* (src/src/http_handler.rs): function_handler, x2t, stream_source_file,   *)
(* stream_output_file, create_convert_temp_paths, get_error_code_message   *)
(* and the detached cleanup task.                                          *)
(*                                                                         *)
(* Every .await of the handler is one action, so that the requests the     *)
(* runtime dispatches concurrently and the cleanup tasks interleave at     *)
(* the places where the code can be suspended.  The file system, the blob  *)
(* store and the converter process are the environment: every outcome the  *)
(* code distinguishes (Ok, each Err) is a nondeterministic choice.         *)
(***************************************************************************)
EXTENDS Integers, Sequences, FiniteSets, TLC

(***************************************************************************)
(* Bounds of the model.                                                    *)
(***************************************************************************)
\* Number of invocations of function_handler the runtime dispatches.
NumReqs == 2
\* Environment I/O errors (failed file, network or process operations)
\* injected in one behaviour.
MaxFaults == 1
\* The longest input file of the integrity loop's own specification, in
\* units of 16 KiB: one unit more than the loop's buffer holds.
MaxFileLen == 3

Reqs == 1..NumReqs

(***************************************************************************)
(* Option<T>: None is the empty tuple, Some(x) the one-element tuple.      *)
(***************************************************************************)
None == <<>>
Some(x) == <<x>>
IsSome(o) == o # None
Unwrap(o) == o[1]

(***************************************************************************)
(* Inputs.  A file or an object body is a sequence of data units; the      *)
(* unit's tag is what the byte-pattern heuristic of the encrypted module   *)
(* keys on.  The body stream of GetObject yields one unit per chunk.       *)
(***************************************************************************)
SourceBucket == "in-bucket"
DestBucket == "out-bucket"
SourceKeys == {"plain.docx", "locked.docx", "broken.docx", "absent.docx"}
DestKeys == {"out.pdf"}

\* The requests the event body can deserialize to (ConvertRequest).
ConvertRequest ==
    [source_bucket : {SourceBucket}, source_key : SourceKeys,
     dest_bucket : {DestBucket}, dest_key : DestKeys]

\* The blob store before any request: absent.docx is in no bucket.
InitialObjects ==
    [loc \in ({SourceBucket, DestBucket} \X (SourceKeys \cup DestKeys)) |->
        IF loc = <<SourceBucket, "plain.docx">> THEN Some(<<"D", "D">>)
        ELSE IF loc = <<SourceBucket, "locked.docx">> THEN Some(<<"E">>)
        ELSE IF loc = <<SourceBucket, "broken.docx">> THEN Some(<<"C">>)
        ELSE None]

\* Uuid::new_v4() values: the generator never repeats a value, and its
\* n-th value is named n.
Uuids == 1..NumReqs

(***************************************************************************)
(* create_convert_temp_paths: the three file names derived from the        *)
(* random id.  A path is <<file name prefix, id, extension>> under the     *)
(* temp root.                                                              *)
(***************************************************************************)
\* Mutant: the input file name leaves out the random id.
create_convert_temp_paths_SharedInput(random_id) ==
    [config_path |-> <<"tmp_native_config_", random_id, ".xml">>,
     input_path  |-> <<"tmp_native_input_", 0, "">>,
     output_path |-> <<"tmp_native_output_", random_id, ".pdf">>]

create_convert_temp_paths(random_id) ==
    [config_path |-> <<"tmp_native_config_", random_id, ".xml">>,
     input_path  |-> <<"tmp_native_input_", random_id, "">>,
     output_path |-> <<"tmp_native_output_", random_id, ".pdf">>]

PathsOf(p) == {p.config_path, p.input_path, p.output_path}

AllPaths == UNION {PathsOf(create_convert_temp_paths(i)) : i \in Uuids}

\* fonts_path as resolved by function_handler (DEFAULT_FONTS_PATH or env).
FontsPath == "/var/www/onlyoffice/documentserver/fonts"

\* The convert config generated by format!: the four elements of the XML.
ConvertConfig(p) ==
    << <<"m_sFileFrom", p.input_path>>,
       <<"m_sFileTo", p.output_path>>,
       <<"m_sFontDir", FontsPath>>,
       <<"m_nFormatTo", "513">> >>

\* What the converter reads out of the descriptor it is given.
ConfigField(cfg, name) ==
    LET i == CHOOSE j \in 1..Len(cfg) : cfg[j][1] = name IN cfg[i][2]

(***************************************************************************)
(* get_error_code_message: the table of known x2t exit codes.              *)
(***************************************************************************)
get_error_code_message(code) ==
    CASE code = 1  -> Some("AVS_FILEUTILS_ERROR_UNKNOWN")
      [] code = 80 -> Some("AVS_FILEUTILS_ERROR_CONVERT")
      [] code = 81 -> Some("AVS_FILEUTILS_ERROR_CONVERT_DOWNLOAD")
      [] code = 82 -> Some("AVS_FILEUTILS_ERROR_CONVERT_UNKNOWN_FORMAT")
      [] code = 83 -> Some("AVS_FILEUTILS_ERROR_CONVERT_TIMEOUT")
      [] code = 84 -> Some("AVS_FILEUTILS_ERROR_CONVERT_READ_FILE")
      [] code = 85 -> Some("AVS_FILEUTILS_ERROR_CONVERT_DRM_UNSUPPORTED")
      [] code = 86 -> Some("AVS_FILEUTILS_ERROR_CONVERT_CORRUPTED")
      [] code = 87 -> Some("AVS_FILEUTILS_ERROR_CONVERT_LIBREOFFICE")
      [] code = 88 -> Some("AVS_FILEUTILS_ERROR_CONVERT_PARAMS")
      [] code = 89 -> Some("AVS_FILEUTILS_ERROR_CONVERT_NEED_PARAMS")
      [] code = 90 -> Some("AVS_FILEUTILS_ERROR_CONVERT_DRM")
      [] code = 91 -> Some("AVS_FILEUTILS_ERROR_CONVERT_PASSWORD")
      [] code = 92 -> Some("AVS_FILEUTILS_ERROR_CONVERT_ICU")
      [] code = 93 -> Some("AVS_FILEUTILS_ERROR_CONVERT_LIMITS")
      [] code = 94 -> Some("AVS_FILEUTILS_ERROR_CONVERT_ROWLIMITS")
      [] code = 95 -> Some("AVS_FILEUTILS_ERROR_CONVERT_DETECT")
      [] code = 96 -> Some("AVS_FILEUTILS_ERROR_CONVERT_CELLLIMITS")
      [] OTHER -> None

\* Mutant: the table is not consulted.
ErrorMessage_Generic(error_code) == "unknown error occurred"

\* error_code.and_then(get_error_code_message).unwrap_or("unknown error occurred")
ErrorMessage(error_code) ==
    LET m == IF IsSome(error_code) THEN get_error_code_message(Unwrap(error_code))
             ELSE None
    IN IF IsSome(m) THEN Unwrap(m) ELSE "unknown error occurred"

(***************************************************************************)
(* ErrorResponse {reason, x2t_code, message} and the Result of x2t.        *)
(***************************************************************************)
ErrorResponse(reason, x2t_code, message) ==
    [reason |-> reason, x2t_code |-> x2t_code, message |-> message]

Pending == <<"Pending">>
Ok == <<"Ok">>
Err(e) == <<"Err", e>>
IsErr(res) == res[1] = "Err"
ErrOf(res) == res[2]

\* serde_json::to_string(&error): the object's members in declaration
\* order, None written as null.
JsonOption(o, kind) == IF IsSome(o) THEN <<kind, Unwrap(o)>> ELSE <<"null">>
ToJson(e) ==
    << <<"reason", JsonOption(e.reason, "string")>>,
       <<"x2t_code", JsonOption(e.x2t_code, "number")>>,
       <<"message", <<"string", e.message>> >> >>

\* Mutant: the error body is sent with the default status.
ErrorHttpResponse_Status200(e) ==
    [status |-> 200, content_type |-> Some("application/json"),
     body |-> <<"Text", ToJson(e)>>]

\* Response::builder().status(500).header(content-type).body(body.into())
ErrorHttpResponse(e) ==
    [status |-> 500, content_type |-> Some("application/json"),
     body |-> <<"Text", ToJson(e)>>]
\* Response::builder().status(200).body(().into())
OkHttpResponse ==
    [status |-> 200, content_type |-> None, body |-> <<"Empty">>]

\* The tail of function_handler: the response built from the result of x2t.
ResponseOf(res) ==
    IF IsErr(res) THEN ErrorHttpResponse(ErrOf(res)) ELSE OkHttpResponse

(***************************************************************************)
(* The converter process as the handler sees it: std::process::Output.     *)
(* status is Some(code) for an exit, None for a death by signal            *)
(* (ExitStatus::code()); stderr is a sequence of words.                    *)
(***************************************************************************)
\* Mutant: the test of the exit status is inverted.
StatusSuccess_Inverted(status) == status # Some(0)

StatusSuccess(status) == status = Some(0)
Aborted == <<"terminate", "std::out_of_range", "basic_string">>
\* The failed runs of the converter considered, <<status, stderr>>: a known
\* and an unknown exit code, and the crash on an uncaught out_of_range
\* with an exit code and by signal.
X2tFailures ==
    {<<Some(91), <<>> >>, <<Some(250), <<>> >>, <<Some(91), Aborted>>, <<None, Aborted>>}

\* str::contains: the needle occurs as a contiguous run of the haystack.
Contains(hay, needle) ==
    \E i \in 0..(Len(hay) - Len(needle)) :
        \A j \in 1..Len(needle) : hay[i + j] = needle[j]

OutOfRangeSignature == <<"std::out_of_range">>

\* What x2t writes to m_sFileTo for an input it converts.
X2tOutput(input) == <<"PDF">> \o input

\* let mut file_bytes = [0u8; 1024 * 32], in units of 16 KiB.
FILE_BYTES_LEN == 2

\* crate::encrypted::get_file_condition, which is not part of the sources:
\* a function of the inspected prefix alone.
get_file_condition(bytes) ==
    IF \E i \in 1..Len(bytes) : bytes[i] = "E" THEN "LikelyEncrypted"
    ELSE IF \E i \in 1..Len(bytes) : bytes[i] = "C" THEN "LikelyCorrupted"
    ELSE IF bytes = <<>> THEN "Unknown"
    ELSE "Normal"

\* Mutant: the heuristic's verdict is matched before stderr is looked at.
Classify_HeuristicFirst(error_code, stderr, file_condition) ==
    CASE file_condition = "LikelyCorrupted" ->
            ErrorResponse(Some("FILE_LIKELY_CORRUPTED"), error_code, "file is corrupted")
      [] file_condition = "LikelyEncrypted" ->
            ErrorResponse(Some("FILE_LIKELY_ENCRYPTED"), error_code, "file is encrypted")
      [] OTHER ->
            IF Contains(stderr, OutOfRangeSignature)
            THEN ErrorResponse(Some("FILE_LIKELY_ENCRYPTED"), error_code, "file is encrypted")
            ELSE ErrorResponse(None, error_code, ErrorMessage(error_code))

\* Mutant: a code the table knows is reported before the heuristic is asked.
Classify_LookupFirst(error_code, stderr, file_condition) ==
    IF Contains(stderr, OutOfRangeSignature)
    THEN ErrorResponse(Some("FILE_LIKELY_ENCRYPTED"), error_code, "file is encrypted")
    ELSE IF IsSome(error_code) /\ IsSome(get_error_code_message(Unwrap(error_code)))
    THEN ErrorResponse(None, error_code, ErrorMessage(error_code))
    ELSE CASE file_condition = "LikelyCorrupted" ->
                 ErrorResponse(Some("FILE_LIKELY_CORRUPTED"), error_code, "file is corrupted")
           [] file_condition = "LikelyEncrypted" ->
                 ErrorResponse(Some("FILE_LIKELY_ENCRYPTED"), error_code, "file is encrypted")
           [] OTHER -> ErrorResponse(None, error_code, ErrorMessage(error_code))

\* The tail of the failure branch of x2t (lines 283-308): the ErrorResponse
\* for a failed conversion.
Classify(error_code, stderr, file_condition) ==
    IF Contains(stderr, OutOfRangeSignature)
    THEN ErrorResponse(Some("FILE_LIKELY_ENCRYPTED"), error_code, "file is encrypted")
    ELSE CASE file_condition = "LikelyCorrupted" ->
                ErrorResponse(Some("FILE_LIKELY_CORRUPTED"), error_code, "file is corrupted")
           [] file_condition = "LikelyEncrypted" ->
                ErrorResponse(Some("FILE_LIKELY_ENCRYPTED"), error_code, "file is encrypted")
           [] OTHER ->
                ErrorResponse(None, error_code, ErrorMessage(error_code))

(***************************************************************************)
(* State.                                                                  *)
(***************************************************************************)
VARIABLES
    pc,             \* where each invocation of function_handler is
    request,        \* the ConvertRequest it deserialized (None before)
    paths,          \* its ConvertTempPaths (None before allocation)
    body,           \* the chunks its GetObject body stream still holds
    output,         \* the Output of its converter process (None before exit)
    file_bytes,     \* the prefix its integrity loop has read (file_size = Len)
    result,         \* what its call of x2t returned (Pending before)
    response,       \* the Response it returned (None before)
    cleanup,        \* where its cleanup task is ("unspawned" before tokio::spawn)
    fs,             \* the temp root: path -> Some(content) or None
    temp_dir,       \* whether the temp root directory exists
    s3,             \* the blob store: <<bucket, key>> -> Some(body) or None
    uuids,          \* the ids Uuid::new_v4 has handed out
    faults,         \* environment I/O errors so far
    log,            \* history: the fallible pipeline steps it attempted, in order
    spawned,        \* history: how many cleanup tasks it spawned
    produced,       \* history: the output file as its converter left it at exit
    uploaded,       \* history: the body its PutObject carried
    touched,        \* history: the paths it created, wrote, read or deleted
    delete_failed   \* history: the paths whose remove_file failed

vars == <<pc, request, paths, body, output, file_bytes, result, response, cleanup,
          fs, temp_dir, s3, uuids, faults, log, spawned, produced, uploaded,
          touched, delete_failed>>

handler_vars == <<request, paths, body, output, file_bytes, result, response>>
history_vars == <<log, spawned, produced, uploaded, touched, delete_failed>>

Init ==
    /\ pc = [r \in Reqs |-> "parse"]
    /\ request = [r \in Reqs |-> None]
    /\ paths = [r \in Reqs |-> None]
    /\ body = [r \in Reqs |-> <<>>]
    /\ output = [r \in Reqs |-> None]
    /\ file_bytes = [r \in Reqs |-> <<>>]
    /\ result = [r \in Reqs |-> Pending]
    /\ response = [r \in Reqs |-> None]
    /\ cleanup = [r \in Reqs |-> "unspawned"]
    /\ fs = [p \in AllPaths |-> None]
    /\ temp_dir \in BOOLEAN
    /\ s3 = InitialObjects
    /\ uuids = {}
    /\ faults = 0
    /\ log = [r \in Reqs |-> <<>>]
    /\ spawned = [r \in Reqs |-> 0]
    /\ produced = [r \in Reqs |-> None]
    /\ uploaded = [r \in Reqs |-> None]
    /\ touched = [r \in Reqs |-> {}]
    /\ delete_failed = [r \in Reqs |-> {}]

\* An environment I/O error may still be injected.
MayFail == faults < MaxFaults
Fault == faults' = faults + 1
NoFault == UNCHANGED faults

Logged(r, step, outcome) == log' = [log EXCEPT ![r] = Append(@, <<step, outcome>>)]
Touch(r, p) == touched' = [touched EXCEPT ![r] = @ \cup {p}]

Req(r) == Unwrap(request[r])
Paths(r) == Unwrap(paths[r])

\* x2t returns Err(e): function_handler goes on to spawn the cleanup task.
Return(r, res) ==
    /\ result' = [result EXCEPT ![r] = res]
    /\ pc' = [pc EXCEPT ![r] = "spawn_cleanup"]

(***************************************************************************)
(* function_handler, before x2t (lines 30-98).  A `?` here returns         *)
(* Err(Error) to the runtime: no Response, and the cleanup task is never   *)
(* reached.                                                                *)
(***************************************************************************)
\* serde_json::from_slice(body)?
ParseRequest(r) ==
    /\ pc[r] = "parse"
    /\ \/ \E req \in ConvertRequest :
            /\ request' = [request EXCEPT ![r] = Some(req)]
            /\ pc' = [pc EXCEPT ![r] = "resolve"]
       \/ /\ pc' = [pc EXCEPT ![r] = "failed"]
          /\ UNCHANGED request
    /\ UNCHANGED <<paths, body, output, file_bytes, result, response, cleanup, fs,
                   temp_dir, s3, uuids, faults, history_vars>>

\* X2T_PATH / the default directory, absolute(value)?, and the panic when
\* no x2t path is found.
ResolvePaths(r) ==
    /\ pc[r] = "resolve"
    /\ \/ pc' = [pc EXCEPT ![r] = "temp_dir"] /\ NoFault
       \/ pc' = [pc EXCEPT ![r] = "panicked"] /\ NoFault
       \/ MayFail /\ Fault /\ pc' = [pc EXCEPT ![r] = "failed"]
    /\ UNCHANGED <<handler_vars, cleanup, fs, temp_dir, s3, uuids, history_vars>>

\* if !temp_path.exists() { create_dir_all(&temp_path).await ...? }
EnsureTempDir(r) ==
    /\ pc[r] = "temp_dir"
    /\ \/ /\ temp_dir
          /\ pc' = [pc EXCEPT ![r] = "alloc"]
          /\ UNCHANGED <<temp_dir, faults>>
       \/ /\ ~temp_dir
          /\ temp_dir' = TRUE
          /\ pc' = [pc EXCEPT ![r] = "alloc"]
          /\ NoFault
       \/ /\ ~temp_dir
          /\ MayFail /\ Fault
          /\ pc' = [pc EXCEPT ![r] = "failed"]
          /\ UNCHANGED temp_dir
    /\ UNCHANGED <<handler_vars, cleanup, fs, s3, uuids, history_vars>>

\* Uuid::new_v4(): a value not handed out before.
new_v4 == Cardinality(uuids) + 1

\* Mutant: the cleanup task is spawned as soon as the paths are known.
CreateTempPaths_SpawnFirst(r) ==
    /\ pc[r] = "alloc"
    /\ \/ LET random_id == new_v4 IN
            /\ uuids' = uuids \cup {random_id}
            /\ paths' = [paths EXCEPT ![r] = Some(create_convert_temp_paths(random_id))]
            /\ pc' = [pc EXCEPT ![r] = "write_config"]
            /\ cleanup' = [cleanup EXCEPT ![r] = "input"]
            /\ spawned' = [spawned EXCEPT ![r] = @ + 1]
            /\ NoFault
       \/ /\ MayFail /\ Fault
          /\ pc' = [pc EXCEPT ![r] = "failed"]
          /\ UNCHANGED <<uuids, paths, cleanup, spawned>>
    /\ UNCHANGED <<request, body, output, file_bytes, result, response, fs,
                   temp_dir, s3, log, produced, uploaded, touched, delete_failed>>

\* create_convert_temp_paths(&temp_path).map_err(..)?
CreateTempPaths(r) ==
    /\ pc[r] = "alloc"
    /\ \/ LET random_id == new_v4 IN
            /\ uuids' = uuids \cup {random_id}
            /\ paths' = [paths EXCEPT ![r] = Some(create_convert_temp_paths(random_id))]
            /\ pc' = [pc EXCEPT ![r] = "write_config"]
            /\ NoFault
       \/ /\ MayFail /\ Fault
          /\ pc' = [pc EXCEPT ![r] = "failed"]
          /\ UNCHANGED <<uuids, paths>>
    /\ UNCHANGED <<request, body, output, file_bytes, result, response, cleanup, fs,
                   temp_dir, s3, history_vars>>

(***************************************************************************)
(* x2t (lines 176-320) with stream_source_file and stream_output_file.     *)
(***************************************************************************)
\* Mutant: the result of the write is dropped and x2t goes on.
WriteConfig_Unchecked(r) ==
    /\ pc[r] = "write_config"
    /\ LET p == Paths(r).config_path IN
       /\ Touch(r, p)
       /\ \/ /\ fs' = [fs EXCEPT ![p] = Some(ConvertConfig(Paths(r)))]
             /\ Logged(r, "write_config", "ok")
             /\ NoFault
          \/ /\ MayFail /\ Fault
             /\ fs' = [fs EXCEPT ![p] = Some(<<>>)]
             /\ Logged(r, "write_config", "err")
    /\ pc' = [pc EXCEPT ![r] = "get_object"]
    /\ UNCHANGED <<request, paths, body, output, file_bytes, result, response, cleanup,
                   temp_dir, s3, uuids, spawned, produced, uploaded, delete_failed>>

\* tokio::fs::write(&config_path, config_bytes): a failed write may leave
\* the file created and empty.
WriteConfig(r) ==
    /\ pc[r] = "write_config"
    /\ LET p == Paths(r).config_path IN
       /\ Touch(r, p)
       /\ \/ /\ fs' = [fs EXCEPT ![p] = Some(ConvertConfig(Paths(r)))]
             /\ pc' = [pc EXCEPT ![r] = "get_object"]
             /\ Logged(r, "write_config", "ok")
             /\ NoFault
             /\ UNCHANGED result
          \/ /\ MayFail /\ Fault
             /\ \E left \in {fs[p], Some(<<>>)} : fs' = [fs EXCEPT ![p] = left]
             /\ Logged(r, "write_config", "err")
             /\ Return(r, Err(ErrorResponse(Some("WRITE_CONFIG_FILE"), None,
                                            "failed to write config file")))
    /\ UNCHANGED <<request, paths, body, output, file_bytes, response, cleanup,
                   temp_dir, s3, uuids, spawned, produced, uploaded, delete_failed>>

\* Mutant: the is_no_such_key() branch is missing.
NoSuchKeyError_Unchecked == ErrorResponse(Some("GET_OBJECT"), None, "service error")

\* The ErrorResponse of stream_source_file for a service error that
\* is_no_such_key(), and for any other error of the GetObject call.
NoSuchKeyError ==
    ErrorResponse(Some("NO_SUCH_KEY"), None, "key not found in source bucket")
GetObjectError == ErrorResponse(Some("GET_OBJECT"), None, "service error")

\* s3_client.get_object().bucket(..).key(..).send().await
GetObject(r) ==
    /\ pc[r] = "get_object"
    /\ LET obj == s3[<<Req(r).source_bucket, Req(r).source_key>>] IN
       \/ /\ IsSome(obj)
          /\ body' = [body EXCEPT ![r] = Unwrap(obj)]
          /\ pc' = [pc EXCEPT ![r] = "create_input"]
          /\ Logged(r, "get_object", "ok")
          /\ NoFault
          /\ UNCHANGED result
       \/ /\ ~IsSome(obj)
          /\ Logged(r, "get_object", "no_such_key")
          /\ Return(r, Err(NoSuchKeyError))
          /\ NoFault
          /\ UNCHANGED body
       \/ /\ MayFail /\ Fault
          /\ Logged(r, "get_object", "err")
          /\ Return(r, Err(GetObjectError))
          /\ UNCHANGED body
    /\ UNCHANGED <<request, paths, output, file_bytes, response, cleanup, fs,
                   temp_dir, s3, uuids, spawned, produced, uploaded, touched,
                   delete_failed>>

\* Mutant: a failed File::create has a reason of its own.
CreateInput_OwnReason(r) ==
    /\ pc[r] = "create_input"
    /\ LET p == Paths(r).input_path IN
       \/ /\ fs' = [fs EXCEPT ![p] = Some(<<>>)]
          /\ Touch(r, p)
          /\ pc' = [pc EXCEPT ![r] = "next_chunk"]
          /\ Logged(r, "create_input", "ok")
          /\ NoFault
          /\ UNCHANGED result
       \/ /\ MayFail /\ Fault
          /\ Logged(r, "create_input", "err")
          /\ Return(r, Err(ErrorResponse(Some("CREATE_INPUT_FILE"), None, "io error")))
          /\ UNCHANGED <<fs, touched>>
    /\ UNCHANGED <<request, paths, body, output, file_bytes, response, cleanup,
                   temp_dir, s3, uuids, spawned, produced, uploaded, delete_failed>>

\* tokio::fs::File::create(file_path): creates or truncates the input file.
CreateInput(r) ==
    /\ pc[r] = "create_input"
    /\ LET p == Paths(r).input_path IN
       \/ /\ fs' = [fs EXCEPT ![p] = Some(<<>>)]
          /\ Touch(r, p)
          /\ pc' = [pc EXCEPT ![r] = "next_chunk"]
          /\ Logged(r, "create_input", "ok")
          /\ NoFault
          /\ UNCHANGED result
       \/ /\ MayFail /\ Fault
          /\ Logged(r, "create_input", "err")
          /\ Return(r, Err(ErrorResponse(Some("GET_OBJECT"), None, "io error")))
          /\ UNCHANGED <<fs, touched>>
    /\ UNCHANGED <<request, paths, body, output, file_bytes, response, cleanup,
                   temp_dir, s3, uuids, spawned, produced, uploaded, delete_failed>>

\* while let Some(chunk_result) = body.next().await { let chunk = chunk_result?
NextChunk(r) ==
    /\ pc[r] = "next_chunk"
    /\ \/ /\ body[r] # <<>>
          /\ pc' = [pc EXCEPT ![r] = "write_chunk"]
          /\ Logged(r, "read_chunk", "ok")
          /\ NoFault
          /\ UNCHANGED result
       \/ /\ body[r] # <<>>
          /\ MayFail /\ Fault
          /\ Logged(r, "read_chunk", "err")
          /\ Return(r, Err(ErrorResponse(Some("READ_OBJECT_CHUNK"), None,
                                         "failed to read chunk")))
       \/ /\ body[r] = <<>>
          /\ pc' = [pc EXCEPT ![r] = "flush"]
          /\ NoFault
          /\ UNCHANGED <<result, log>>
    /\ UNCHANGED <<request, paths, body, output, file_bytes, response, cleanup, fs,
                   temp_dir, s3, uuids, spawned, produced, uploaded, touched,
                   delete_failed>>

\* file.write_all(&chunk).await
WriteChunk(r) ==
    /\ pc[r] = "write_chunk"
    /\ LET p == Paths(r).input_path IN
       \/ /\ fs' = IF IsSome(fs[p])
                   THEN [fs EXCEPT ![p] = Some(Append(Unwrap(@), Head(body[r])))]
                   ELSE fs    \* the handle of an unlinked file: the data is lost
          /\ body' = [body EXCEPT ![r] = Tail(@)]
          /\ pc' = [pc EXCEPT ![r] = "next_chunk"]
          /\ Logged(r, "write_chunk", "ok")
          /\ NoFault
          /\ UNCHANGED result
       \/ /\ MayFail /\ Fault
          /\ Logged(r, "write_chunk", "err")
          /\ Return(r, Err(ErrorResponse(Some("WRITE_OBJECT_CHUNK"), None,
                                         "failed to write chunk")))
          /\ UNCHANGED <<fs, body>>
    /\ UNCHANGED <<request, paths, output, file_bytes, response, cleanup,
                   temp_dir, s3, uuids, spawned, produced, uploaded, touched,
                   delete_failed>>

\* Mutant: a failed flush is tried again.
Flush_Retry(r) ==
    /\ pc[r] = "flush"
    /\ \/ /\ pc' = [pc EXCEPT ![r] = "run_x2t"]
          /\ Logged(r, "flush", "ok")
          /\ NoFault
       \/ /\ MayFail /\ Fault
          /\ Logged(r, "flush", "err")
          /\ UNCHANGED pc
    /\ UNCHANGED <<request, paths, body, output, file_bytes, result, response,
                   cleanup, fs, temp_dir, s3, uuids, spawned, produced, uploaded,
                   touched, delete_failed>>

\* file.flush().await
Flush(r) ==
    /\ pc[r] = "flush"
    /\ \/ /\ pc' = [pc EXCEPT ![r] = "run_x2t"]
          /\ Logged(r, "flush", "ok")
          /\ NoFault
          /\ UNCHANGED result
       \/ /\ MayFail /\ Fault
          /\ Logged(r, "flush", "err")
          /\ Return(r, Err(ErrorResponse(Some("FLUSH_OBJECT"), None,
                                         "failed to flush object")))
    /\ UNCHANGED <<request, paths, body, output, file_bytes, response, cleanup, fs,
                   temp_dir, s3, uuids, spawned, produced, uploaded, touched,
                   delete_failed>>

\* Mutant: the child is spawned and not waited for.
RunX2t_Detached(r) ==
    /\ pc[r] = "run_x2t"
    /\ \/ /\ pc' = [pc EXCEPT ![r] = "open_output"]
          /\ Logged(r, "run_x2t", "ok")
          /\ NoFault
          /\ UNCHANGED result
       \/ /\ MayFail /\ Fault
          /\ Logged(r, "run_x2t", "err")
          /\ Return(r, Err(ErrorResponse(Some("RUN_X2T"), None, "failed to run x2t")))
    /\ UNCHANGED <<request, paths, body, output, file_bytes, response, cleanup, fs,
                   temp_dir, s3, uuids, spawned, produced, uploaded, touched,
                   delete_failed>>

\* Command::new(x2t).arg(config_path).env(LD_LIBRARY_PATH, ..).output():
\* the child is spawned, or the call fails.
RunX2t(r) ==
    /\ pc[r] = "run_x2t"
    /\ \/ /\ pc' = [pc EXCEPT ![r] = "x2t_running"]
          /\ Logged(r, "run_x2t", "ok")
          /\ NoFault
          /\ UNCHANGED result
       \/ /\ MayFail /\ Fault
          /\ Logged(r, "run_x2t", "err")
          /\ Return(r, Err(ErrorResponse(Some("RUN_X2T"), None, "failed to run x2t")))
    /\ UNCHANGED <<request, paths, body, output, file_bytes, response, cleanup, fs,
                   temp_dir, s3, uuids, spawned, produced, uploaded, touched,
                   delete_failed>>

\* The ways the converter process can end for the descriptor at `arg`:
\* <<status, stderr, what it left at m_sFileTo>>.  A converter that cannot
\* fails leaves no output file, and one that cannot read its descriptor or
\* its input fails.
X2tOutcomes(arg) ==
    LET cfg == fs[arg]
        from == IF IsSome(cfg) THEN fs[ConfigField(Unwrap(cfg), "m_sFileFrom")] ELSE None
        failures == {<<f[1], f[2], None>> : f \in X2tFailures}
    IN IF IsSome(cfg) /\ Unwrap(cfg) # <<>> /\ IsSome(from)
       THEN failures \cup {<<Some(0), <<>>, out>> : out \in {None, Some(X2tOutput(Unwrap(from)))}}
       ELSE failures

\* The child exits and .output().await returns its Output; the handler
\* branches on output.status.success().
X2tExit(r) ==
    /\ pc[r] = "x2t_running"
    /\ LET arg == Paths(r).config_path IN
       \E o \in X2tOutcomes(arg) :
          LET to == IF IsSome(o[3]) THEN ConfigField(Unwrap(fs[arg]), "m_sFileTo")
                    ELSE Paths(r).output_path
          IN
          /\ output' = [output EXCEPT ![r] = Some([status |-> o[1], stderr |-> o[2]])]
          /\ fs' = IF IsSome(o[3]) THEN [fs EXCEPT ![to] = o[3]] ELSE fs
          /\ touched' = [touched EXCEPT ![r] = @ \cup
                            IF IsSome(o[3]) THEN {arg, Paths(r).input_path, to} ELSE {arg}]
          /\ produced' = [produced EXCEPT ![r] = fs'[Paths(r).output_path]]
          /\ pc' = [pc EXCEPT ![r] = IF StatusSuccess(o[1]) THEN "open_output"
                                     ELSE "open_integrity"]
    /\ UNCHANGED <<request, paths, body, file_bytes, result, response, cleanup,
                   temp_dir, s3, uuids, faults, log, spawned, uploaded, delete_failed>>

Status(r) == Unwrap(output[r]).status
StdErr(r) == Unwrap(output[r]).stderr

\* tokio::fs::File::open(&input_path) for the integrity check.
OpenIntegrity(r) ==
    /\ pc[r] = "open_integrity"
    /\ LET p == Paths(r).input_path IN
       \/ /\ IsSome(fs[p])
          /\ file_bytes' = [file_bytes EXCEPT ![r] = <<>>]
          /\ Touch(r, p)
          /\ pc' = [pc EXCEPT ![r] = "read_integrity"]
          /\ Logged(r, "open_integrity", "ok")
          /\ NoFault
          /\ UNCHANGED result
       \/ /\ IF IsSome(fs[p]) THEN MayFail /\ Fault ELSE NoFault
          /\ Logged(r, "open_integrity", "err")
          /\ Return(r, Err(ErrorResponse(Some("OPEN_FILE_INTEGRITY"), None,
                               "failed to open input file for integrity check")))
          /\ UNCHANGED <<file_bytes, touched>>
    /\ UNCHANGED <<request, paths, body, output, response, cleanup, fs,
                   temp_dir, s3, uuids, spawned, produced, uploaded, delete_failed>>

\* Mutant: the input file is read with one call of read, not in a loop.
ReadIntegrity_SingleRead(r) ==
    /\ pc[r] = "read_integrity"
    /\ LET p == Paths(r).input_path
           content == IF IsSome(fs[p]) THEN Unwrap(fs[p]) ELSE <<>>
           room == FILE_BYTES_LEN
           rest == Len(content)
           most == IF room < rest THEN room ELSE rest
       IN
       \/ /\ most > 0 /\ file_bytes[r] = <<>>
          /\ \E n \in 1..most :
                file_bytes' = [file_bytes EXCEPT ![r] = SubSeq(content, 1, n)]
          /\ Logged(r, "read_integrity", "ok")
          /\ NoFault
          /\ UNCHANGED <<pc, result>>
       \/ /\ most <= 0 \/ file_bytes[r] # <<>>
          /\ Logged(r, "read_integrity", "eof")
          /\ Return(r, Err(Classify(Status(r), StdErr(r),
                                    get_file_condition(file_bytes[r]))))
          /\ NoFault
          /\ UNCHANGED file_bytes
       \/ /\ MayFail /\ Fault
          /\ Logged(r, "read_integrity", "err")
          /\ Return(r, Err(ErrorResponse(Some("READ_FILE_INTEGRITY"), None,
                               "failed to read input file for integrity check")))
          /\ UNCHANGED file_bytes
    /\ UNCHANGED <<request, paths, body, output, response, cleanup, fs,
                   temp_dir, s3, uuids, spawned, produced, uploaded, touched,
                   delete_failed>>

\* One turn of the loop `let n = file.read(&mut file_bytes[file_size..])`:
\* a read of n > 0 units, a failed read, or n = 0 (end of file, or no room
\* left in the buffer), which breaks the loop and classifies the failure.
ReadIntegrity(r) ==
    /\ pc[r] = "read_integrity"
    /\ LET p == Paths(r).input_path
           content == IF IsSome(fs[p]) THEN Unwrap(fs[p]) ELSE <<>>
           file_size == Len(file_bytes[r])
           room == FILE_BYTES_LEN - file_size
           rest == Len(content) - file_size
           most == IF room < rest THEN room ELSE rest
       IN
       \/ /\ most > 0
          /\ \E n \in 1..most :
                file_bytes' = [file_bytes EXCEPT ![r] =
                                  @ \o SubSeq(content, file_size + 1, file_size + n)]
          /\ Logged(r, "read_integrity", "ok")
          /\ NoFault
          /\ UNCHANGED <<pc, result>>
       \/ /\ most <= 0
          /\ Logged(r, "read_integrity", "eof")
          /\ Return(r, Err(Classify(Status(r), StdErr(r),
                                    get_file_condition(file_bytes[r]))))
          /\ NoFault
          /\ UNCHANGED file_bytes
       \/ /\ MayFail /\ Fault
          /\ Logged(r, "read_integrity", "err")
          /\ Return(r, Err(ErrorResponse(Some("READ_FILE_INTEGRITY"), None,
                               "failed to read input file for integrity check")))
          /\ UNCHANGED file_bytes
    /\ UNCHANGED <<request, paths, body, output, response, cleanup, fs,
                   temp_dir, s3, uuids, spawned, produced, uploaded, touched,
                   delete_failed>>

\* Mutant: the input file is handed to stream_output_file.
UploadPath_Input(r) == Paths(r).input_path

\* The file x2t hands to stream_output_file: &input.paths.output_path.
UploadPath(r) == Paths(r).output_path

\* Mutant: the stream is opened lazily, a missing file shows in the upload.
OpenOutput_Lazy(r) ==
    /\ pc[r] = "open_output"
    /\ Touch(r, UploadPath(r))
    /\ pc' = [pc EXCEPT ![r] = "put_object"]
    /\ Logged(r, "open_output", "ok")
    /\ UNCHANGED <<request, paths, body, output, file_bytes, result, response, cleanup,
                   fs, temp_dir, s3, uuids, faults, spawned, produced, uploaded,
                   delete_failed>>

\* ByteStream::from_path(file_path).await: fails when the file is not there.
OpenOutput(r) ==
    /\ pc[r] = "open_output"
    /\ LET p == UploadPath(r) IN
       \/ /\ IsSome(fs[p])
          /\ Touch(r, p)
          /\ pc' = [pc EXCEPT ![r] = "put_object"]
          /\ Logged(r, "open_output", "ok")
          /\ NoFault
          /\ UNCHANGED result
       \/ /\ IF IsSome(fs[p]) THEN MayFail /\ Fault ELSE NoFault
          /\ Logged(r, "open_output", "err")
          /\ Return(r, Err(ErrorResponse(Some("CREATE_OUTPUT_STREAM"), None,
                                         "failed to create output stream")))
          /\ UNCHANGED touched
    /\ UNCHANGED <<request, paths, body, output, file_bytes, response, cleanup, fs,
                   temp_dir, s3, uuids, spawned, produced, uploaded, delete_failed>>

\* Mutant: a failed PutObject is sent again.
PutObject_Retry(r) ==
    /\ pc[r] = "put_object"
    /\ LET p == UploadPath(r) IN
       \/ /\ IsSome(fs[p])
          /\ s3' = [s3 EXCEPT ![<<Req(r).dest_bucket, Req(r).dest_key>>] = fs[p]]
          /\ uploaded' = [uploaded EXCEPT ![r] = fs[p]]
          /\ Logged(r, "put_object", "ok")
          /\ Return(r, Ok)
          /\ NoFault
       \/ /\ MayFail /\ Fault
          /\ Logged(r, "put_object", "err")
          /\ UNCHANGED <<s3, uploaded, result, pc>>
    /\ UNCHANGED <<request, paths, body, output, file_bytes, response, cleanup, fs,
                   temp_dir, uuids, spawned, produced, touched, delete_failed>>

\* s3_client.put_object().bucket(..).key(..).body(byte_stream).send().await:
\* the body is read from the file while the request is sent.
PutObject(r) ==
    /\ pc[r] = "put_object"
    /\ LET p == UploadPath(r) IN
       \/ /\ IsSome(fs[p])
          /\ s3' = [s3 EXCEPT ![<<Req(r).dest_bucket, Req(r).dest_key>>] = fs[p]]
          /\ uploaded' = [uploaded EXCEPT ![r] = fs[p]]
          /\ Logged(r, "put_object", "ok")
          /\ Return(r, Ok)
          /\ NoFault
       \/ /\ IF IsSome(fs[p]) THEN MayFail /\ Fault ELSE NoFault
          /\ Logged(r, "put_object", "err")
          /\ Return(r, Err(ErrorResponse(Some("UPLOAD_OUTPUT_STREAM"), None,
                                         "failed to upload output stream")))
          /\ UNCHANGED <<s3, uploaded>>
    /\ UNCHANGED <<request, paths, body, output, file_bytes, response, cleanup, fs,
                   temp_dir, uuids, spawned, produced, touched, delete_failed>>

(***************************************************************************)
(* function_handler after x2t (lines 126-165) and the cleanup task.        *)
(***************************************************************************)
\* Mutant: the error return comes before the spawn.
SpawnCleanup_OnSuccess(r) ==
    /\ pc[r] = "spawn_cleanup"
    /\ IF IsErr(result[r])
       THEN UNCHANGED <<cleanup, spawned>>
       ELSE /\ cleanup' = [cleanup EXCEPT ![r] = "input"]
            /\ spawned' = [spawned EXCEPT ![r] = @ + 1]
    /\ pc' = [pc EXCEPT ![r] = "respond"]
    /\ UNCHANGED <<handler_vars, fs, temp_dir, s3, uuids, faults, log, produced,
                   uploaded, touched, delete_failed>>

\* tokio::spawn(async move { .. }): the task is handed to the runtime.
SpawnCleanup(r) ==
    /\ pc[r] = "spawn_cleanup"
    /\ cleanup' = [cleanup EXCEPT ![r] = "input"]
    /\ spawned' = [spawned EXCEPT ![r] = @ + 1]
    /\ pc' = [pc EXCEPT ![r] = "respond"]
    /\ UNCHANGED <<handler_vars, fs, temp_dir, s3, uuids, faults, log, produced,
                   uploaded, touched, delete_failed>>

\* Mutant: the handler awaits the cleanup task before it returns.
Respond_AfterCleanup(r) ==
    /\ pc[r] = "respond"
    /\ cleanup[r] = "done"
    /\ response' = [response EXCEPT ![r] = Some(ResponseOf(result[r]))]
    /\ pc' = [pc EXCEPT ![r] = "done"]
    /\ UNCHANGED <<request, paths, body, output, file_bytes, result, cleanup, fs,
                   temp_dir, s3, uuids, faults, history_vars>>

\* if let Err(error) = result { .. status(500) .. } else { .. status(200) .. }
Respond(r) ==
    /\ pc[r] = "respond"
    /\ response' = [response EXCEPT ![r] = Some(ResponseOf(result[r]))]
    /\ pc' = [pc EXCEPT ![r] = "done"]
    /\ UNCHANGED <<request, paths, body, output, file_bytes, result, cleanup, fs,
                   temp_dir, s3, uuids, faults, history_vars>>

\* Mutant: a failed remove_file ends the task.
Remove_AbortOnError(r, at, p, next) ==
    /\ cleanup[r] = at
    /\ \/ /\ ~IsSome(fs[p])
          /\ cleanup' = [cleanup EXCEPT ![r] = next]
          /\ NoFault
          /\ UNCHANGED <<fs, touched, delete_failed>>
       \/ /\ IsSome(fs[p])
          /\ cleanup' = [cleanup EXCEPT ![r] = next]
          /\ fs' = [fs EXCEPT ![p] = None]
          /\ Touch(r, p)
          /\ NoFault
          /\ UNCHANGED delete_failed
       \/ /\ IsSome(fs[p])
          /\ MayFail /\ Fault
          /\ cleanup' = [cleanup EXCEPT ![r] = "done"]
          /\ Touch(r, p)
          /\ delete_failed' = [delete_failed EXCEPT ![r] = @ \cup {p}]
          /\ UNCHANGED fs
    /\ UNCHANGED <<pc, handler_vars, temp_dir, s3, uuids, log, spawned, produced,
                   uploaded>>

\* if path.exists() && let Err(err) = remove_file(path).await { log }
\* and the task goes on to `next` either way.
Remove(r, at, p, next) ==
    /\ cleanup[r] = at
    /\ cleanup' = [cleanup EXCEPT ![r] = next]
    /\ \/ /\ ~IsSome(fs[p])
          /\ NoFault
          /\ UNCHANGED <<fs, touched, delete_failed>>
       \/ /\ IsSome(fs[p])
          /\ fs' = [fs EXCEPT ![p] = None]
          /\ Touch(r, p)
          /\ NoFault
          /\ UNCHANGED delete_failed
       \/ /\ IsSome(fs[p])
          /\ MayFail /\ Fault
          /\ Touch(r, p)
          /\ delete_failed' = [delete_failed EXCEPT ![r] = @ \cup {p}]
          /\ UNCHANGED fs
    /\ UNCHANGED <<pc, handler_vars, temp_dir, s3, uuids, log, spawned, produced,
                   uploaded>>

CleanupInput(r) == Remove(r, "input", Paths(r).input_path, "config")
CleanupConfig(r) == Remove(r, "config", Paths(r).config_path, "output")

\* Mutant: the task ends without removing the output file.
CleanupOutput_Skipped(r) ==
    /\ cleanup[r] = "output"
    /\ cleanup' = [cleanup EXCEPT ![r] = "done"]
    /\ UNCHANGED <<pc, handler_vars, fs, temp_dir, s3, uuids, faults, history_vars>>

CleanupOutput(r) == Remove(r, "output", Paths(r).output_path, "done")

Cleanup(r) == CleanupInput(r) \/ CleanupConfig(r) \/ CleanupOutput(r)

Handler(r) ==
    \/ ParseRequest(r) \/ ResolvePaths(r) \/ EnsureTempDir(r) \/ CreateTempPaths(r)
    \/ WriteConfig(r) \/ GetObject(r) \/ CreateInput(r) \/ NextChunk(r)
    \/ WriteChunk(r) \/ Flush(r) \/ RunX2t(r) \/ X2tExit(r)
    \/ OpenIntegrity(r) \/ ReadIntegrity(r) \/ OpenOutput(r) \/ PutObject(r)
    \/ SpawnCleanup(r) \/ Respond(r)

Next == \E r \in Reqs : Handler(r) \/ Cleanup(r)

Spec == Init /\ [][Next]_vars

\* One invocation running alone.  Once x2t has returned the handler runs
\* on, without suspending, through tokio::spawn to its return, and the
\* runtime polls the spawned cleanup task until the task ends.  Nothing
\* makes the converter exit or the other awaited operations return.
SoloNext == Handler(1) \/ Cleanup(1)
FairSpec ==
    /\ Init /\ [][SoloNext]_vars
    /\ WF_vars(SpawnCleanup(1) \/ Respond(1))
    /\ WF_vars(Cleanup(1))

\* One invocation running alone in which every awaited operation returns:
\* the blob-store calls, the file operations, and the converter exits.
ReturningSpec ==
    /\ Init /\ [][SoloNext]_vars
    /\ WF_vars(Handler(1))
    /\ WF_vars(Cleanup(1))

(***************************************************************************)
(* The failure branch of x2t alone (lines 228-308), for input files of     *)
(* every length up to MaxFileLen units: request 1 as it stands when its    *)
(* converter has just exited with a failure, after a download of a source  *)
(* object of that length.  Each read of the loop returns.                  *)
(***************************************************************************)
Units == {"D", "E", "C"}
Contents == UNION {[1..n -> Units] : n \in 0..MaxFileLen}

\* The calls x2t has made when the converter has been spawned for a
\* source object of this content.
DownloadLog(content) ==
    << <<"write_config", "ok">>, <<"get_object", "ok">>, <<"create_input", "ok">> >>
    \o [i \in 1..(2 * Len(content)) |->
            IF i % 2 = 1 THEN <<"read_chunk", "ok">> ELSE <<"write_chunk", "ok">>]
    \o << <<"flush", "ok">>, <<"run_x2t", "ok">> >>

LoopInit ==
    \E req \in ConvertRequest, content \in Contents, failure \in X2tFailures :
        LET p == create_convert_temp_paths(1) IN
        /\ pc = [r \in Reqs |-> IF r = 1 THEN "open_integrity" ELSE "parse"]
        /\ request = [r \in Reqs |-> IF r = 1 THEN Some(req) ELSE None]
        /\ paths = [r \in Reqs |-> IF r = 1 THEN Some(p) ELSE None]
        /\ body = [r \in Reqs |-> <<>>]
        /\ output = [r \in Reqs |->
                        IF r = 1 THEN Some([status |-> failure[1], stderr |-> failure[2]])
                        ELSE None]
        /\ file_bytes = [r \in Reqs |-> <<>>]
        /\ result = [r \in Reqs |-> Pending]
        /\ response = [r \in Reqs |-> None]
        /\ cleanup = [r \in Reqs |-> "unspawned"]
        /\ fs = [q \in AllPaths |->
                    IF q = p.config_path THEN Some(ConvertConfig(p))
                    ELSE IF q = p.input_path THEN Some(content)
                    ELSE None]
        /\ temp_dir = TRUE
        /\ s3 = [InitialObjects EXCEPT ![<<req.source_bucket, req.source_key>>] =
                                            Some(content)]
        /\ uuids = {1}
        /\ faults = 0
        /\ log = [r \in Reqs |-> IF r = 1 THEN DownloadLog(content) ELSE <<>>]
        /\ spawned = [r \in Reqs |-> 0]
        /\ produced = [r \in Reqs |-> None]
        /\ uploaded = [r \in Reqs |-> None]
        /\ touched = [r \in Reqs |-> IF r = 1 THEN {p.config_path, p.input_path} ELSE {}]
        /\ delete_failed = [r \in Reqs |-> {}]

LoopNext == OpenIntegrity(1) \/ ReadIntegrity(1)

LoopSpec ==
    /\ LoopInit /\ [][LoopNext]_vars
    /\ WF_vars(ReadIntegrity(1))

(***************************************************************************)
(* Vocabulary of the properties.                                           *)
(***************************************************************************)
Entries(r) == {log[r][i] : i \in 1..Len(log[r])}
Attempted(r, step) == \E e \in Entries(r) : e[1] = step
Count(r, step) == Cardinality({i \in 1..Len(log[r]) : log[r][i][1] = step})

\* x2t has returned to function_handler.
Completed(r) == result[r] # Pending
\* function_handler has returned: a Response, an Err, or a panic.
Returned(r) == pc[r] \in {"done", "failed", "panicked"}
\* The request's source key is in no object of the source bucket.
KeyAbsent(r) ==
    /\ IsSome(request[r])
    /\ ~IsSome(s3[<<Req(r).source_bucket, Req(r).source_key>>])
\* The integrity loop ran to its end and the failure was classified.
Classified(r) == <<"read_integrity", "eof">> \in Entries(r)
\* The converter exited with a non-zero code (not by signal).
ExitedNonZero(r) ==
    /\ IsSome(output[r])
    /\ IsSome(Status(r))
    /\ Unwrap(Status(r)) # 0
Workspace(r) == IF IsSome(paths[r]) THEN PathsOf(Paths(r)) ELSE {}
NoneOnDisk(r) == \A p \in Workspace(r) : ~IsSome(fs[p])

(***************************************************************************)
(* C1.  Original statement: every request whose source key does not exist  *)
(* ends in the NO_SUCH_KEY failure (x2t_code null, message "key not found  *)
(* in source bucket"), never starts the converter and issues no PutObject. *)
(***************************************************************************)
C1_Original ==
    \A r \in Reqs :
        (KeyAbsent(r) /\ Completed(r)) =>
            /\ result[r] = Err(ErrorResponse(Some("NO_SUCH_KEY"), None,
                                             "key not found in source bucket"))
            /\ ~Attempted(r, "run_x2t")
            /\ ~Attempted(r, "put_object")

(***************************************************************************)
(* C1, amended.  A request whose GetObject is answered "no such key" ends  *)
(* in the NO_SUCH_KEY failure with x2t_code null and that message; and a   *)
(* request whose source key does not exist, however it ends, never starts  *)
(* the converter and never issues a PutObject.                             *)
(***************************************************************************)
C1_NoSuchKey ==
    \A r \in Reqs :
        /\ <<"get_object", "no_such_key">> \in Entries(r) =>
              /\ result[r] = Err(ErrorResponse(Some("NO_SUCH_KEY"), None,
                                               "key not found in source bucket"))
              /\ response[r] # None => Unwrap(response[r]).status = 500
        /\ KeyAbsent(r) =>
              /\ ~Attempted(r, "run_x2t")
              /\ ~Attempted(r, "put_object")
              /\ output[r] = None
              /\ uploaded[r] = None
              /\ result[r] # Ok

C1_Witness ==
    \E r \in Reqs :
        /\ KeyAbsent(r)
        /\ <<"get_object", "no_such_key">> \in Entries(r)
        /\ pc[r] = "done"

(***************************************************************************)
(* C2.  A run that ends in Success uploaded exactly the output file as the *)
(* converter left it at exit, and from the converter's exit to the end of  *)
(* the upload that file is what the converter left: nothing modified or    *)
(* removed it.                                                             *)
(***************************************************************************)
C2_UploadIsOutput ==
    \A r \in Reqs :
        /\ result[r] = Ok =>
              /\ IsSome(produced[r])
              /\ uploaded[r] = produced[r]
        /\ pc[r] \in {"open_output", "put_object"} =>
              fs[Paths(r).output_path] = produced[r]

C2_Witness ==
    \E r \in Reqs, q \in Reqs :
        /\ r # q
        /\ result[r] = Ok
        /\ uploaded[r] = Some(<<"PDF", "D", "D">>)
        /\ cleanup[q] = "done"
        /\ s3[<<Req(r).dest_bucket, Req(r).dest_key>>] = uploaded[r]

(***************************************************************************)
(* C3.  Original statement: once the pipeline has completed, a state is    *)
(* eventually reached in which none of the three workspace paths exists.   *)
(***************************************************************************)
C3_Original ==
    \A r \in Reqs : Completed(r) ~> NoneOnDisk(r)

(***************************************************************************)
(* C3, amended.  Once the pipeline has completed, and as long as the       *)
(* runtime keeps running the cleanup task, a state is eventually reached   *)
(* in which the cleanup task has ended and every workspace path that still *)
(* exists is one whose remove_file failed.                                 *)
(***************************************************************************)
C3_EventuallyCleaned ==
    \A r \in Reqs :
        Completed(r) ~>
            /\ cleanup[r] = "done"
            /\ \A p \in Workspace(r) : IsSome(fs[p]) => p \in delete_failed[r]

C3_Witness ==
    /\ result[1] = Ok
    /\ cleanup[1] = "done"
    /\ NoneOnDisk(1)
    /\ delete_failed[1] = {}

(***************************************************************************)
(* C4.  Original statement: every request, whichever stage fails, starts   *)
(* the cleanup action exactly once.                                        *)
(***************************************************************************)
C4_Original ==
    \A r \in Reqs :
        /\ spawned[r] <= 1
        /\ Returned(r) => spawned[r] = 1

(***************************************************************************)
(* C4, amended.  Every request whose pipeline (x2t) was entered starts the *)
(* cleanup action exactly once, whichever pipeline stage fails or none:    *)
(* never twice, and once by the time the response is returned.  A request  *)
(* that fails before the pipeline (request parsing, path resolution, temp  *)
(* directory, path allocation) starts none.                                *)
(***************************************************************************)
C4_CleanupOnce ==
    \A r \in Reqs :
        /\ spawned[r] <= 1
        /\ pc[r] \in {"respond", "done"} => spawned[r] = 1
        /\ pc[r] \in {"failed", "panicked"} => spawned[r] = 0
        /\ (spawned[r] = 0) = (cleanup[r] = "unspawned")
        /\ spawned[r] = 1 => Completed(r)

C4_Witness ==
    \E r \in Reqs, q \in Reqs :
        /\ pc[r] = "done" /\ result[r] = Ok /\ spawned[r] = 1
        /\ pc[q] = "done" /\ IsErr(result[q]) /\ spawned[q] = 1
        /\ ErrOf(result[q]).reason = Some("WRITE_CONFIG_FILE")

LikelyEncryptedError(r) ==
    ErrorResponse(Some("FILE_LIKELY_ENCRYPTED"), Status(r), "file is encrypted")
OutOfRange(r) == IsSome(output[r]) /\ Contains(StdErr(r), <<"std::out_of_range">>)
\* The verdict of the byte-pattern heuristic over what the loop has read.
Verdict(r) == get_file_condition(file_bytes[r])

(***************************************************************************)
(* C5.  Original statement: whenever the converter exits non-zero with the *)
(* out-of-range signature in its stderr, the outcome is the LikelyEncrypted*)
(* failure (FILE_LIKELY_ENCRYPTED, "file is encrypted", x2t_code the exit  *)
(* code, status 500).                                                      *)
(***************************************************************************)
C5_Original ==
    \A r \in Reqs :
        (ExitedNonZero(r) /\ OutOfRange(r) /\ Completed(r)) =>
            result[r] = Err(LikelyEncryptedError(r))

(***************************************************************************)
(* C5, amended.  Whenever the converter exits non-zero with the            *)
(* out-of-range signature in its stderr and the integrity re-read of the   *)
(* input file (its open and every read) succeeds, the outcome is the       *)
(* LikelyEncrypted failure with x2t_code the exit code and status 500,     *)
(* whatever the byte-pattern heuristic reports.                            *)
(***************************************************************************)
C5_OutOfRangeFirst ==
    \A r \in Reqs :
        (ExitedNonZero(r) /\ OutOfRange(r) /\ Classified(r)) =>
            /\ result[r] = Err(LikelyEncryptedError(r))
            /\ ErrOf(result[r]).x2t_code = Status(r)
            /\ response[r] # None => Unwrap(response[r]).status = 500

C5_Witness ==
    \E r \in Reqs :
        /\ ExitedNonZero(r) /\ OutOfRange(r) /\ Classified(r)
        /\ Verdict(r) = "LikelyCorrupted"
        /\ pc[r] = "done"

(***************************************************************************)
(* C6.  Original statement: a converter exit with code 0x5b always yields  *)
(* the response message AVS_FILEUTILS_ERROR_CONVERT_PASSWORD, and an exit  *)
(* with a non-zero code outside the table always yields "unknown error     *)
(* occurred" with x2t_code the raw code (stated here for the runs in which *)
(* the failure was classified).                                            *)
(***************************************************************************)
KnownCodes == {1} \cup (80..96)

C6_Original ==
    \A r \in Reqs :
        (ExitedNonZero(r) /\ Classified(r)) =>
            LET e == ErrOf(result[r])
                code == Unwrap(Status(r))
            IN /\ code = 91 => e.message = "AVS_FILEUTILS_ERROR_CONVERT_PASSWORD"
               /\ code \notin KnownCodes =>
                     /\ e.message = "unknown error occurred"
                     /\ e.x2t_code = Some(code)

(***************************************************************************)
(* C6, amended.  The table maps 0x5b to                                    *)
(* AVS_FILEUTILS_ERROR_CONVERT_PASSWORD and maps no code outside it.  In   *)
(* every classified failure x2t_code is the raw exit code.  The table's    *)
(* message is the response message only when the classifier falls through  *)
(* to the exit-code lookup (no out-of-range signature in stderr and a      *)
(* heuristic verdict that is neither corrupted nor encrypted): then reason *)
(* is null, code 0x5b yields AVS_FILEUTILS_ERROR_CONVERT_PASSWORD and a    *)
(* code outside the table yields "unknown error occurred".                 *)
(***************************************************************************)
FallsThrough(r) ==
    /\ ~OutOfRange(r)
    /\ Verdict(r) \notin {"LikelyCorrupted", "LikelyEncrypted"}

TableMapsPassword ==
    /\ get_error_code_message(91) = Some("AVS_FILEUTILS_ERROR_CONVERT_PASSWORD")
    /\ \A code \in 0..255 : code \notin KnownCodes => get_error_code_message(code) = None

C6_ExitCodeLookup ==
    /\ TableMapsPassword
    /\ \A r \in Reqs :
          (ExitedNonZero(r) /\ Classified(r)) =>
              LET e == ErrOf(result[r])
                  code == Unwrap(Status(r))
              IN /\ e.x2t_code = Some(code)
                 /\ FallsThrough(r) =>
                       /\ e.reason = None
                       /\ code = 91 => e.message = "AVS_FILEUTILS_ERROR_CONVERT_PASSWORD"
                       /\ code \notin KnownCodes => e.message = "unknown error occurred"

C6_Witness ==
    \E r \in Reqs, q \in Reqs :
        /\ Classified(r) /\ FallsThrough(r) /\ Status(r) = Some(91) /\ pc[r] = "done"
        /\ Classified(q) /\ FallsThrough(q) /\ Status(q) = Some(250) /\ pc[q] = "done"

(***************************************************************************)
(* C7.  Original statement: every request produces exactly one response,   *)
(* status 200 with an empty body iff the conversion succeeded, and status  *)
(* 500 with the JSON body {reason, x2t_code, message} of the failure for a *)
(* request that fails at any stage.                                        *)
(***************************************************************************)
JsonBodyOf(e) ==
    <<"Text",
      << <<"reason", IF e.reason = None THEN <<"null">> ELSE <<"string", e.reason[1]>> >>,
         <<"x2t_code", IF e.x2t_code = None THEN <<"null">> ELSE <<"number", e.x2t_code[1]>> >>,
         <<"message", <<"string", e.message>> >> >> >>

ResponseMatches(r) ==
    LET resp == Unwrap(response[r]) IN
    /\ Completed(r)
    /\ (resp.status = 200) = (result[r] = Ok)
    /\ resp.status = 200 => resp.body = <<"Empty">>
    /\ resp.status # 200 =>
          /\ resp.status = 500
          /\ IsErr(result[r])
          /\ resp.body = JsonBodyOf(ErrOf(result[r]))

C7_Original ==
    \A r \in Reqs :
        /\ Returned(r) => (response[r] # None /\ ResponseMatches(r))
        /\ ~Returned(r) => response[r] = None

(***************************************************************************)
(* C7, amended.  Every request whose pipeline (x2t) was entered and        *)
(* returned produces exactly one response: status 200 with an empty body   *)
(* iff the conversion succeeded, otherwise status 500 with the JSON body   *)
(* {reason, x2t_code, message} of the failure.  A request that fails       *)
(* before the pipeline (request parsing, path resolution, temp directory,  *)
(* path allocation) returns an error or panics, with no response.          *)
(***************************************************************************)
C7_StructuredResponse ==
    \A r \in Reqs :
        /\ pc[r] = "done" => (response[r] # None /\ ResponseMatches(r))
        /\ pc[r] # "done" => response[r] = None
        /\ pc[r] \in {"failed", "panicked"} => ~Completed(r)

C7_Witness ==
    \E r \in Reqs, q \in Reqs :
        /\ pc[r] = "done" /\ Unwrap(response[r]).status = 200
        /\ pc[q] = "done" /\ Unwrap(response[q]).status = 500
        /\ ErrOf(result[q]).x2t_code = Some(250)

(***************************************************************************)
(* C8.  Each fallible pipeline step is attempted at most once per request  *)
(* (the chunk steps and the integrity read once per chunk or turn, never   *)
(* again after a failure), the first step that fails is the last step of   *)
(* the request, and the request ends with that step's typed error.         *)
(***************************************************************************)
OnceSteps ==
    {"write_config", "get_object", "create_input", "flush", "run_x2t",
     "open_integrity", "open_output", "put_object"}
FailedOutcomes == {"err", "no_such_key"}

StepReason(e) ==
    CASE e[1] = "write_config" -> "WRITE_CONFIG_FILE"
      [] e[1] = "get_object" /\ e[2] = "no_such_key" -> "NO_SUCH_KEY"
      [] e[1] = "get_object" /\ e[2] = "err" -> "GET_OBJECT"
      [] e[1] = "create_input" -> "GET_OBJECT"
      [] e[1] = "read_chunk" -> "READ_OBJECT_CHUNK"
      [] e[1] = "write_chunk" -> "WRITE_OBJECT_CHUNK"
      [] e[1] = "flush" -> "FLUSH_OBJECT"
      [] e[1] = "run_x2t" -> "RUN_X2T"
      [] e[1] = "open_integrity" -> "OPEN_FILE_INTEGRITY"
      [] e[1] = "read_integrity" -> "READ_FILE_INTEGRITY"
      [] e[1] = "open_output" -> "CREATE_OUTPUT_STREAM"
      [] e[1] = "put_object" -> "UPLOAD_OUTPUT_STREAM"

\* The chunks the request's source object is streamed in.
SourceChunks(r) ==
    LET obj == s3[<<Req(r).source_bucket, Req(r).source_key>>]
    IN IF IsSome(obj) THEN Len(Unwrap(obj)) ELSE 0

C8_FailFast ==
    \A r \in Reqs :
        /\ \A step \in OnceSteps : Count(r, step) <= 1
        /\ log[r] # <<>> =>
              /\ Count(r, "read_chunk") <= SourceChunks(r)
              /\ Count(r, "write_chunk") <= SourceChunks(r)
              /\ Count(r, "read_integrity") <= FILE_BYTES_LEN + 1
        /\ \A i \in 1..Len(log[r]) :
              log[r][i][2] \in FailedOutcomes =>
                  /\ i = Len(log[r])
                  /\ IsErr(result[r])
                  /\ ErrOf(result[r]).reason = Some(StepReason(log[r][i]))
                  /\ ErrOf(result[r]).x2t_code = None
        /\ Completed(r) => pc[r] \in {"spawn_cleanup", "respond", "done"}

C8_Witness ==
    \E r \in Reqs :
        /\ pc[r] = "done"
        /\ log[r] = << <<"write_config", "ok">>, <<"get_object", "ok">>,
                       <<"create_input", "ok">>, <<"read_chunk", "ok">>,
                       <<"write_chunk", "ok">>, <<"read_chunk", "err">> >>
        /\ ErrOf(result[r]).reason = Some("READ_OBJECT_CHUNK")

(***************************************************************************)
(* C9.  The response is a function of the result of x2t alone, whatever    *)
(* the cleanup task has done so far (not started, in progress, finished,   *)
(* a deletion failed), and the handler can return it whenever it has       *)
(* spawned the cleanup task: it never waits for the task.                  *)
(***************************************************************************)
C9_ResponseIgnoresCleanup ==
    \A r \in Reqs :
        /\ response[r] # None =>
              LET resp == Unwrap(response[r]) IN
              IF result[r] = Ok
              THEN resp.status = 200 /\ resp.body = <<"Empty">>
              ELSE resp.status = 500 /\ resp.body = JsonBodyOf(ErrOf(result[r]))
        /\ pc[r] = "respond" => ENABLED Respond(r)

C9_Witness ==
    \E r \in Reqs, q \in Reqs :
        /\ response[r] # None /\ IsErr(result[r]) /\ cleanup[r] = "input"
        /\ response[q] # None /\ result[q] = Ok /\ delete_failed[q] # {}
        /\ cleanup[q] = "output"

(***************************************************************************)
(* C10.  The path triples of any two requests are disjoint (and the three  *)
(* paths of one triple distinct), and every file a request, its converter  *)
(* or its cleanup task creates, writes, reads or deletes is in its own     *)
(* triple, never in another request's.                                     *)
(***************************************************************************)
C10_DisjointWorkspaces ==
    \A r \in Reqs :
        /\ IsSome(paths[r]) => Cardinality(Workspace(r)) = 3
        /\ touched[r] \subseteq Workspace(r)
        /\ \A q \in Reqs \ {r} :
              /\ Workspace(r) \cap Workspace(q) = {}
              /\ touched[r] \cap Workspace(q) = {}

C10_Witness ==
    \E r \in Reqs, q \in Reqs :
        /\ r # q
        /\ pc[r] = "put_object" /\ touched[r] = Workspace(r)
        /\ pc[q] = "read_integrity" /\ cleanup[q] = "unspawned"
        /\ IsSome(fs[Paths(q).input_path])

(***************************************************************************)
(* C11.  Within one request the converter is started at most once, and     *)
(* only after the descriptor write succeeded and then the whole download   *)
(* (GetObject, file creation, every chunk, the final flush) succeeded, in  *)
(* that order; while the converter runs the descriptor is on disk in full  *)
(* and the input file holds the whole source object.                       *)
(***************************************************************************)
DownloadSteps == {"get_object", "create_input", "read_chunk", "write_chunk", "flush"}

\* The source object of the request, as the blob store holds it.
SourceObject(r) == s3[<<Req(r).source_bucket, Req(r).source_key>>]

C11_DescriptorDownloadConvert ==
    \A r \in Reqs :
        /\ Count(r, "run_x2t") <= 1
        /\ \A i \in 1..Len(log[r]) :
              log[r][i][1] = "run_x2t" =>
                  /\ i > 5
                  /\ log[r][1] = <<"write_config", "ok">>
                  /\ log[r][2] = <<"get_object", "ok">>
                  /\ log[r][3] = <<"create_input", "ok">>
                  /\ log[r][i - 1] = <<"flush", "ok">>
                  /\ \A j \in 2..(i - 1) :
                        log[r][j][1] \in DownloadSteps /\ log[r][j][2] = "ok"
                  /\ \A j \in (i + 1)..Len(log[r]) :
                        log[r][j][1] \notin DownloadSteps \cup {"write_config"}
                  /\ Count(r, "write_chunk") = SourceChunks(r)
        /\ pc[r] = "x2t_running" =>
              /\ log[r][Len(log[r])] = <<"run_x2t", "ok">>
              /\ fs[Paths(r).config_path] = Some(ConvertConfig(Paths(r)))
              /\ fs[Paths(r).input_path] = SourceObject(r)
        /\ IsSome(output[r]) => <<"run_x2t", "ok">> \in Entries(r)

C11_Witness ==
    \E r \in Reqs :
        /\ pc[r] = "x2t_running"
        /\ log[r] = << <<"write_config", "ok">>, <<"get_object", "ok">>,
                       <<"create_input", "ok">>, <<"read_chunk", "ok">>,
                       <<"write_chunk", "ok">>, <<"read_chunk", "ok">>,
                       <<"write_chunk", "ok">>, <<"flush", "ok">>,
                       <<"run_x2t", "ok">> >>

(***************************************************************************)
(* C12.  The failure classifier (the re-read of the input file, the        *)
(* heuristic, the stderr check and the exit-code lookup) runs only after   *)
(* the converter was spawned, ran and exited with a status that is not     *)
(* success: never after a successful exit and never when the descriptor    *)
(* write, the download or the spawn failed.                                *)
(***************************************************************************)
ClassifierSteps == {"open_integrity", "read_integrity"}
ClassifierReasons ==
    {Some("OPEN_FILE_INTEGRITY"), Some("READ_FILE_INTEGRITY"),
     Some("FILE_LIKELY_ENCRYPTED"), Some("FILE_LIKELY_CORRUPTED"), None}

\* The classifier has been entered: it is running or one of its steps ran.
ClassifierRan(r) ==
    \/ pc[r] \in {"open_integrity", "read_integrity"}
    \/ \E step \in ClassifierSteps : Attempted(r, step)
    \/ file_bytes[r] # <<>>
    \/ IsErr(result[r]) /\ ErrOf(result[r]).reason \in ClassifierReasons

C12_ClassifierOnlyAfterFailure ==
    \A r \in Reqs :
        ClassifierRan(r) =>
            /\ <<"run_x2t", "ok">> \in Entries(r)
            /\ IsSome(output[r])
            /\ Status(r) # Some(0)
            /\ \A e \in Entries(r) :
                  e[2] \in FailedOutcomes => e[1] \in ClassifierSteps

C12_Witness ==
    \E r \in Reqs, q \in Reqs :
        /\ Classified(r) /\ Status(r) = None /\ pc[r] = "done"
        /\ pc[q] = "done" /\ IsSome(output[q]) /\ Status(q) = Some(0)
        /\ ~ClassifierRan(q)

(***************************************************************************)
(* C13.  When the classifier has read the input file and stderr has no     *)
(* out-of-range signature, the verdict of the heuristic comes first:       *)
(* LikelyCorrupted gives FILE_LIKELY_CORRUPTED "file is corrupted",        *)
(* LikelyEncrypted gives FILE_LIKELY_ENCRYPTED "file is encrypted", any    *)
(* other verdict gives the exit-code lookup with reason null; and a        *)
(* failure has reason null in exactly that last case.                      *)
(***************************************************************************)
C13_VerdictBeforeLookup ==
    \A r \in Reqs :
        /\ (Classified(r) /\ ~OutOfRange(r)) =>
              LET e == ErrOf(result[r]) IN
              /\ Verdict(r) = "LikelyCorrupted" =>
                    /\ e.reason = Some("FILE_LIKELY_CORRUPTED")
                    /\ e.message = "file is corrupted"
              /\ Verdict(r) = "LikelyEncrypted" =>
                    /\ e.reason = Some("FILE_LIKELY_ENCRYPTED")
                    /\ e.message = "file is encrypted"
              /\ Verdict(r) \notin {"LikelyCorrupted", "LikelyEncrypted"} =>
                    /\ e.reason = None
                    /\ e.message = ErrorMessage(Status(r))
        /\ IsErr(result[r]) =>
              (ErrOf(result[r]).reason = None) = (Classified(r) /\ FallsThrough(r))

C13_Witness ==
    \E r \in Reqs, q \in Reqs :
        /\ Classified(r) /\ ~OutOfRange(r) /\ Verdict(r) = "LikelyCorrupted"
        /\ Status(r) = Some(250) /\ pc[r] = "done"
        /\ Classified(q) /\ ~OutOfRange(q) /\ Verdict(q) = "Normal"
        /\ Status(q) = Some(91) /\ pc[q] = "done"

(***************************************************************************)
(* C14.  For every input file length (empty, shorter than, equal to and    *)
(* longer than the buffer) the integrity loop ends, provided each read     *)
(* returns; the offset never passes the end of the buffer and the bytes    *)
(* read so far are always a prefix of the file; when the loop has ended    *)
(* the bytes handed to the heuristic are exactly the first                 *)
(* min(file length, buffer length) bytes of the input file.                *)
(***************************************************************************)
InputFile(r) == Unwrap(fs[Paths(r).input_path])
Min(a, b) == IF a < b THEN a ELSE b
Prefix(seq, n) == SubSeq(seq, 1, Min(Len(seq), n))

C14_IntegrityLoop ==
    /\ [](/\ Len(file_bytes[1]) <= FILE_BYTES_LEN
          /\ file_bytes[1] = Prefix(InputFile(1), Len(file_bytes[1]))
          /\ Classified(1) =>
                /\ file_bytes[1] = Prefix(InputFile(1), FILE_BYTES_LEN)
                /\ result[1] = Err(Classify(Status(1), StdErr(1),
                                            get_file_condition(
                                                Prefix(InputFile(1), FILE_BYTES_LEN)))))
    /\ (pc[1] = "read_integrity") ~> (pc[1] = "spawn_cleanup")

C14_Witness ==
    /\ Classified(1)
    /\ Len(InputFile(1)) > FILE_BYTES_LEN
    /\ Len(file_bytes[1]) = FILE_BYTES_LEN
    /\ Count(1, "read_integrity") = FILE_BYTES_LEN + 1

(***************************************************************************)
(* C15.  The cleanup task takes the three paths in turn (input, config,    *)
(* output) and always goes on to the next: a path that exists is attempted *)
(* (removed, or its failure recorded) whether or not an earlier deletion   *)
(* failed, a path that does not exist is skipped with no effect and no     *)
(* error, and no step of the task changes what x2t returned or the         *)
(* response.  When the task has ended, the paths still on disk are exactly *)
(* those whose deletion failed.                                            *)
(***************************************************************************)
CleanupStages == {"input", "config", "output"}
\* The path the cleanup task is about to take, and the stage after it.
CleanupTurn(r) ==
    CASE cleanup[r] = "input" -> Paths(r).input_path
      [] cleanup[r] = "config" -> Paths(r).config_path
      [] cleanup[r] = "output" -> Paths(r).output_path
CleanupAfter(stage) ==
    CASE stage = "input" -> "config"
      [] stage = "config" -> "output"
      [] stage = "output" -> "done"

CleanupStep(r) ==
    (cleanup[r] \in CleanupStages /\ cleanup'[r] # cleanup[r]) =>
        LET p == CleanupTurn(r) IN
        /\ cleanup'[r] = CleanupAfter(cleanup[r])
        /\ result'[r] = result[r]
        /\ response'[r] = response[r]
        /\ pc'[r] = pc[r]
        /\ IF IsSome(fs[p])
           THEN /\ p \in touched'[r]
                /\ (fs'[p] = None) # (p \in delete_failed'[r])
                /\ \A q \in AllPaths \ {p} : fs'[q] = fs[q]
           ELSE /\ fs' = fs
                /\ delete_failed' = delete_failed
                /\ touched' = touched
                /\ faults' = faults

C15_IndependentDeletions ==
    /\ [](\A r \in Reqs :
            /\ delete_failed[r] \subseteq {p \in Workspace(r) : IsSome(fs[p])}
            /\ cleanup[r] = "done" =>
                  {p \in Workspace(r) : IsSome(fs[p])} = delete_failed[r]
            /\ response[r] # None => Unwrap(response[r]) = ResponseOf(result[r]))
    /\ [][\A r \in Reqs : CleanupStep(r)]_vars

C15_Witness ==
    \E r \in Reqs :
        /\ cleanup[r] = "done"
        /\ result[r] = Ok
        /\ delete_failed[r] = {Paths(r).input_path}
        /\ fs[Paths(r).config_path] = None
        /\ fs[Paths(r).output_path] = None
        /\ IsSome(response[r]) /\ Unwrap(response[r]).status = 200

(***************************************************************************)
(* C16.  After a successful exit of the converter, a failure to open the   *)
(* output file (as when the converter left none) ends the request with     *)
(* CREATE_OUTPUT_STREAM and no PutObject, and a failure of the PutObject   *)
(* ends it with UPLOAD_OUTPUT_STREAM; both with x2t_code null and a status *)
(* 500 response carrying that error.                                       *)
(***************************************************************************)
CreateOutputStreamError ==
    ErrorResponse(Some("CREATE_OUTPUT_STREAM"), None, "failed to create output stream")
UploadOutputStreamError ==
    ErrorResponse(Some("UPLOAD_OUTPUT_STREAM"), None, "failed to upload output stream")

Is500With(r, e) ==
    response[r] # None =>
        /\ Unwrap(response[r]).status = 500
        /\ Unwrap(response[r]).body = JsonBodyOf(e)

C16_UploadErrors ==
    \A r \in Reqs :
        /\ <<"open_output", "err">> \in Entries(r) =>
              /\ Status(r) = Some(0)
              /\ result[r] = Err(CreateOutputStreamError)
              /\ ~Attempted(r, "put_object")
              /\ uploaded[r] = None
              /\ Is500With(r, CreateOutputStreamError)
        /\ (IsSome(output[r]) /\ Status(r) = Some(0) /\ produced[r] = None
              /\ Completed(r)) =>
              <<"open_output", "err">> \in Entries(r)
        /\ <<"put_object", "err">> \in Entries(r) =>
              /\ Status(r) = Some(0)
              /\ result[r] = Err(UploadOutputStreamError)
              /\ Is500With(r, UploadOutputStreamError)
        /\ (IsErr(result[r]) /\ ErrOf(result[r]).reason = Some("CREATE_OUTPUT_STREAM")) =>
              <<"open_output", "err">> \in Entries(r)
        /\ (IsErr(result[r]) /\ ErrOf(result[r]).reason = Some("UPLOAD_OUTPUT_STREAM")) =>
              <<"put_object", "err">> \in Entries(r)

C16_Witness ==
    \E r \in Reqs, q \in Reqs :
        /\ <<"open_output", "err">> \in Entries(r) /\ produced[r] = None
        /\ IsSome(response[r])
        /\ <<"put_object", "err">> \in Entries(q) /\ IsSome(produced[q])
        /\ IsSome(response[q])

(***************************************************************************)
(* C17.  The cleanup task of a request exists only once x2t has returned   *)
(* for that request: while the pipeline runs the task is not spawned, the  *)
(* files the pipeline is working on are on disk (descriptor and input for  *)
(* the converter, input for the integrity re-read, output for the upload), *)
(* and every step that removes a file of a request's workspace is a step   *)
(* of that request's cleanup task taken after x2t returned.                *)
(***************************************************************************)
PipelineStages ==
    {"write_config", "get_object", "create_input", "next_chunk", "write_chunk",
     "flush", "run_x2t", "x2t_running", "open_integrity", "read_integrity",
     "open_output", "put_object"}

RemovesFileOf(r) ==
    \E p \in Workspace(r) : IsSome(fs[p]) /\ fs'[p] = None

C17_CleanupAfterPipeline ==
    /\ [](\A r \in Reqs :
            /\ cleanup[r] # "unspawned" =>
                  (Completed(r) /\ pc[r] \in {"respond", "done"})
            /\ pc[r] \in PipelineStages =>
                  (cleanup[r] = "unspawned" /\ ~Completed(r))
            /\ pc[r] \in {"run_x2t", "x2t_running"} =>
                  /\ IsSome(fs[Paths(r).config_path])
                  /\ IsSome(fs[Paths(r).input_path])
            /\ pc[r] \in {"open_integrity", "read_integrity"} =>
                  fs[Paths(r).input_path] = SourceObject(r)
            /\ pc[r] = "put_object" => IsSome(fs[Paths(r).output_path]))
    /\ [][\A r \in Reqs :
            RemovesFileOf(r) =>
                /\ Completed(r)
                /\ cleanup[r] \in CleanupStages
                /\ cleanup'[r] = CleanupAfter(cleanup[r])
                /\ pc[r] \notin PipelineStages]_vars

C17_Witness ==
    \E r \in Reqs, q \in Reqs :
        /\ Classified(r) /\ cleanup[r] = "done" /\ NoneOnDisk(r)
        /\ result[q] = Ok /\ cleanup[q] = "done" /\ NoneOnDisk(q)
        /\ uploaded[q] = produced[q]

(***************************************************************************)
(* C18.  In every run PutObject is issued at most once, and only after the *)
(* converter exited with a successful status and the output file was       *)
(* opened; a run that ends in a failure other than UPLOAD_OUTPUT_STREAM    *)
(* has issued none; and the blob store changes only in the PutObject of a  *)
(* request whose converter succeeded, at that request's destination.       *)
(***************************************************************************)
Destination(r) == <<Req(r).dest_bucket, Req(r).dest_key>>

C18_SinglePutAfterSuccess ==
    /\ [](\A r \in Reqs :
            /\ Count(r, "put_object") <= 1
            /\ (pc[r] = "put_object" \/ Attempted(r, "put_object")
                  \/ IsSome(uploaded[r])) =>
                  /\ IsSome(output[r])
                  /\ Status(r) = Some(0)
                  /\ <<"open_output", "ok">> \in Entries(r)
            /\ (IsErr(result[r])
                  /\ ErrOf(result[r]).reason # Some("UPLOAD_OUTPUT_STREAM")) =>
                  /\ ~Attempted(r, "put_object")
                  /\ uploaded[r] = None)
    /\ [][s3' # s3 =>
            \E r \in Reqs :
                /\ pc[r] = "put_object"
                /\ Status(r) = Some(0)
                /\ result'[r] = Ok
                /\ \A k \in DOMAIN s3 : k # Destination(r) => s3'[k] = s3[k]]_vars

C18_Witness ==
    \E r \in Reqs, q \in Reqs :
        /\ <<"put_object", "err">> \in Entries(r) /\ pc[r] = "done"
        /\ result[q] = Ok /\ Count(q, "put_object") = 1 /\ pc[q] = "done"

(***************************************************************************)
(* C19.  Original statement: if every external operation returns, every    *)
(* request reaches a terminal outcome, Success or Failure, and then a      *)
(* response (stated here for the requests that were deserialized and got   *)
(* as far as the allocation of their workspace).                           *)
(***************************************************************************)
C19_Original == (pc[1] = "alloc") ~> (Completed(1) /\ response[1] # None)

(***************************************************************************)
(* C19, amended.  If every external operation returns, every request that  *)
(* reaches the pipeline (x2t is called) reaches exactly one terminal       *)
(* outcome and then one response, neither of which changes afterwards; a   *)
(* request that fails before the pipeline reaches neither.  No response is *)
(* produced before the converter the request started has exited: while the *)
(* converter runs there is no outcome, no response and no cleanup task.    *)
(***************************************************************************)
C19_RespondsAfterConverter ==
    /\ (pc[1] \in PipelineStages) ~> (Completed(1) /\ response[1] # None)
    /\ [](/\ response[1] # None =>
                /\ Completed(1)
                /\ <<"run_x2t", "ok">> \in Entries(1) => IsSome(output[1])
          /\ pc[1] = "x2t_running" =>
                /\ output[1] = None
                /\ result[1] = Pending
                /\ response[1] = None
                /\ cleanup[1] = "unspawned" /\ spawned[1] = 0
          /\ pc[1] \in {"failed", "panicked"} =>
                (result[1] = Pending /\ response[1] = None))
    /\ [][/\ result[1] # Pending => result'[1] = result[1]
          /\ response[1] # None => response'[1] = response[1]]_vars

C19_Witness ==
    /\ pc[1] = "done"
    /\ result[1] = Ok
    /\ IsSome(output[1])
    /\ response[1] = Some(OkHttpResponse)
    /\ cleanup[1] = "done"

(***************************************************************************)
(* C20.  When GetObject succeeded and creating the local input file fails, *)
(* the request ends with reason GET_OBJECT, the reason of a retrieval      *)
(* failure other than a missing key, with x2t_code null and the converter  *)
(* never invoked; reason GET_OBJECT comes from one of these two failures,  *)
(* and reason NO_SUCH_KEY only from a GetObject the blob store answered    *)
(* with "no such key", for a key that is in no object of the bucket.       *)
(***************************************************************************)
ReasonOf(r) == ErrOf(result[r]).reason

C20_CreateFailureIsGetObject ==
    \A r \in Reqs :
        /\ <<"create_input", "err">> \in Entries(r) =>
              /\ <<"get_object", "ok">> \in Entries(r)
              /\ IsErr(result[r])
              /\ ReasonOf(r) = Some("GET_OBJECT")
              /\ ReasonOf(r) = GetObjectError.reason
              /\ ErrOf(result[r]).x2t_code = None
              /\ ~Attempted(r, "run_x2t")
              /\ output[r] = None
              /\ Is500With(r, ErrOf(result[r]))
        /\ (IsErr(result[r]) /\ ReasonOf(r) = Some("GET_OBJECT")) =>
              \/ <<"get_object", "err">> \in Entries(r)
              \/ <<"create_input", "err">> \in Entries(r)
        /\ (IsErr(result[r]) /\ ReasonOf(r) = Some("NO_SUCH_KEY")) =>
              /\ <<"get_object", "no_such_key">> \in Entries(r)
              /\ KeyAbsent(r)
              /\ ~Attempted(r, "create_input")

C20_Witness ==
    \E r \in Reqs, q \in Reqs :
        /\ <<"create_input", "err">> \in Entries(r) /\ pc[r] = "done"
        /\ ~KeyAbsent(r)
        /\ IsErr(result[q]) /\ ReasonOf(q) = Some("NO_SUCH_KEY") /\ pc[q] = "done"

====
